---- MODULE Spec2Model ----
(***************************************************************************)
(* Model of the chess tournament manager: the Swiss pairing function of    *)
(* the React client (two revisions), the in-memory Express server and the  *)
(* client handlers that drive it.                                          *)
(*                                                                         *)
(* Scores are held in half points (score 1 is 2, a draw is 1) so that      *)
(* 0.5 stays an integer; every comparison and difference the code makes    *)
(* is preserved by that scaling.                                           *)
(***************************************************************************)
EXTENDS Integers, Sequences, FiniteSets, TLC

(***************************************************************************)
(* Bounds of the model.                                                    *)
(***************************************************************************)
MaxN == 4          \* longest player list handed to the pairing function
MaxMet == 3        \* most pairs of the pairing input that met before
MaxPlayers == 3    \* players ever added to the tournament
MaxStarts == 2     \* rounds ever started in the tournament
TournamentMaxRounds == 2   \* largest maxRounds a tournament is created with
MaxRoundNumber == 3 \* largest roundNumber passed for a first round
MaxScored == 4     \* players of the tournament whose scores are recomputed
MaxSeated == 2     \* players of round 1 when only its results are recorded
MaxRanked == 6     \* longest list of competitors whose scores all differ
MaxRankedMet == 2  \* most pairs of such a list that met before

(***************************************************************************)
(* Values.                                                                 *)
(***************************************************************************)
NoPlayer == 0                      \* black: null of a bye pairing
NoResult == "null"                 \* result: null
Results == {"1-0", "0.5-0.5", "0-1"}
BYE == "BYE"
Infinity == 999999                 \* let minScoreDiff = Infinity

RatingOf(id) == IF id % 2 = 1 THEN 1400 ELSE 1200
NameOf(id) == <<"Ann", "Bob", "Cid", "Dan", "Eve", "Fay", "Gus", "Hal">>[id]

Scores == {0, 1, 2}                \* scores drawn for a pairing input: 0, 0.5, 1
Viewers == {"v1", "v2"}
Organizer == {"v1"}
TheTournament == 1                 \* id of the tournament the viewers open
NoTournament == 0                  \* currentTournament: null
UndefinedTournament == -1          \* currentTournament.id of an object without id
TournamentUpdated == "tournamentUpdated"
RoundUpdated == "roundUpdated"

Abs(x) == IF x < 0 THEN -x ELSE x
Range(s) == {s[k] : k \in 1..Len(s)}

VARIABLES
    dbPlayers,       \* inMemoryDB.players
    dbRounds,        \* inMemoryDB.rounds
    dbPairings,      \* inMemoryDB.pairings
    maxRounds,       \* maxRounds of the tournament, chosen when it was created
    nextPlayerId,    \* the next uuid of a player
    nextRoundId,     \* the next uuid of a round
    nextPairingId,   \* the next uuid of a pairing
    cTournament,     \* per viewer: currentTournament (its id, 0 when null)
    cPlayers,        \* per viewer: the players state of the component
    cRounds,         \* per viewer: the rounds state of the component
    joined,          \* per viewer: the tournament rooms its socket joined
    inbox,           \* per viewer: the socket events emitted to it, not yet handled
    putReq,          \* server.js: the update-pairing request being handled
    getReq,          \* server.js: the tournament-details request being handled
    sentDisabled,    \* server.js: the players whose last update sent disabled: true
    argPlayers,      \* pairing call: the players argument
    argRounds,       \* pairing call: the rounds the closure reads
    argRoundNumber,  \* pairing call: the roundNumber argument
    ret,             \* what calculateSwissPairings returned (current revision)
    retV1,           \* what the src/App.jsx revision returned
    pc               \* "ready" before the pairing call, "done" after

pairVars == <<argPlayers, argRounds, argRoundNumber, ret, retV1, pc>>
dbVars == <<dbPlayers, dbRounds, dbPairings, maxRounds, nextPlayerId, nextRoundId,
           nextPairingId>>
clientVars == <<cTournament, cPlayers, cRounds>>
socketVars == <<joined, inbox>>
pgVars == <<putReq, getReq, sentDisabled>>
vars == <<dbVars, clientVars, socketVars, pgVars, pairVars>>

(***************************************************************************)
(* calculateSwissPairings, current revision.                               *)
(***************************************************************************)
\* havePlayed looking for a as white and b as black only
havePlayedAsWhiteOnly(rounds, a, b) ==
    \E r \in 1..Len(rounds) : \E k \in 1..Len(rounds[r].pairings) :
        rounds[r].pairings[k].white = a /\ rounds[r].pairings[k].black = b

\* rounds.some(round => round.pairings.some(pairing => ...))
havePlayed(rounds, a, b) ==
    \E r \in 1..Len(rounds) : \E k \in 1..Len(rounds[r].pairings) :
        LET pairing == rounds[r].pairings[k]
        IN  \/ pairing.white = a /\ pairing.black = b
            \/ pairing.white = b /\ pairing.black = a

\* players.filter(player => !player.disabled)
activePlayers(players) == SelectSeq(players, LAMBDA p : ~p.disabled)

\* the comparator looking at the score alone
compareScoreOnly(a, b) == b.score - a.score

\* the sort comparator: negative when a goes before b
compare(a, b) ==
    IF b.score # a.score THEN b.score - a.score ELSE b.rating - a.rating

\* the walk taking the active players in input order, without the sort
sortedPlayersUnsorted(active) == active

\* [...activePlayers].sort(compare): Array.prototype.sort is stable, so the
\* result is the one of inserting each element, in input order, behind the
\* elements that do not have to come after it
RECURSIVE sortedPlayers(_)
sortedPlayers(active) ==
    IF active = <<>> THEN <<>>
    ELSE LET n == Len(active)
             last == active[n]
             front == sortedPlayers(SubSeq(active, 1, n - 1))
             keep == Cardinality({x \in 1..(n - 1) : compare(front[x], last) <= 0})
         IN  SubSeq(front, 1, keep) \o <<last>> \o SubSeq(front, keep + 1, n - 1)

\* the inner loop taking a same-score candidate without asking whether they met
RECURSIVE findBestOpponentSameScoreAnyone(_, _, _, _, _, _, _)
findBestOpponentSameScoreAnyone(sp, rounds, used, i, j, best, minScoreDiff) ==
    IF j > Len(sp) THEN best
    ELSE IF j \in used
    THEN findBestOpponentSameScoreAnyone(sp, rounds, used, i, j + 1, best, minScoreDiff)
    ELSE LET scoreDiff == Abs(sp[i].score - sp[j].score)
             played == havePlayed(rounds, sp[i].id, sp[j].id)
         IN  IF scoreDiff = 0 THEN j
             ELSE IF ~played /\ (best = 0 \/ scoreDiff < minScoreDiff)
             THEN findBestOpponentSameScoreAnyone(sp, rounds, used, i, j + 1, j, scoreDiff)
             ELSE findBestOpponentSameScoreAnyone(sp, rounds, used, i, j + 1, best,
                                                  minScoreDiff)

\* the inner loop keeping the running best with <= : the last of the nearest
RECURSIVE findBestOpponentLastNearest(_, _, _, _, _, _, _)
findBestOpponentLastNearest(sp, rounds, used, i, j, best, minScoreDiff) ==
    IF j > Len(sp) THEN best
    ELSE IF j \in used
    THEN findBestOpponentLastNearest(sp, rounds, used, i, j + 1, best, minScoreDiff)
    ELSE LET scoreDiff == Abs(sp[i].score - sp[j].score)
             played == havePlayed(rounds, sp[i].id, sp[j].id)
         IN  IF ~played /\ (best = 0 \/ scoreDiff <= minScoreDiff)
             THEN findBestOpponentLastNearest(sp, rounds, used, i, j + 1, j, scoreDiff)
             ELSE findBestOpponentLastNearest(sp, rounds, used, i, j + 1, best,
                                              minScoreDiff)

\* the inner for loop over j: the index of bestOpponent, 0 when null
RECURSIVE findBestOpponent(_, _, _, _, _, _, _)
findBestOpponent(sp, rounds, used, i, j, best, minScoreDiff) ==
    IF j > Len(sp) THEN best
    ELSE IF j \in used
    THEN findBestOpponent(sp, rounds, used, i, j + 1, best, minScoreDiff)
    ELSE LET scoreDiff == Abs(sp[i].score - sp[j].score)
             played == havePlayed(rounds, sp[i].id, sp[j].id)
         IN  IF ~played /\ scoreDiff = 0 THEN j
             ELSE IF ~played /\ (best = 0 \/ scoreDiff < minScoreDiff)
             THEN findBestOpponent(sp, rounds, used, i, j + 1, j, scoreDiff)
             ELSE findBestOpponent(sp, rounds, used, i, j + 1, best, minScoreDiff)

\* the fallback loop finding nobody
findFallbackNobody(sp, used, i) == 0

\* the fallback loop running to its end: the last unused index after i
findFallbackLast(sp, used, i) ==
    LET free == {j \in (i + 1)..Len(sp) : j \notin used}
    IN  IF free = {} THEN 0 ELSE CHOOSE j \in free : \A k \in free : j >= k

\* the fallback for loop: the first unused index after i, 0 when none
findFallback(sp, used, i) ==
    LET free == {j \in (i + 1)..Len(sp) : j \notin used}
    IN  IF free = {} THEN 0 ELSE CHOOSE j \in free : \A k \in free : j <= k

\* the game pairing with the colours the other way round
gamePairingBlackFirst(p1, p2, roundNumber) ==
    [white |-> p2.id, black |-> p1.id, whiteName |-> p2.name,
     blackName |-> p1.name, result |-> NoResult, round |-> roundNumber]

gamePairing(p1, p2, roundNumber) ==
    [white |-> p1.id, black |-> p2.id, whiteName |-> p1.name,
     blackName |-> p2.name, result |-> NoResult, round |-> roundNumber]

byePairing(p1, roundNumber) ==
    [white |-> p1.id, black |-> NoPlayer, whiteName |-> p1.name,
     blackName |-> BYE, result |-> "1-0", round |-> roundNumber]

\* the outer for loop over i; st = [pairings, used, byeGiven, unpaired],
\* unpaired collecting the positions that took the last else branch
RECURSIVE sweep(_, _, _, _, _)
sweep(sp, rounds, roundNumber, i, st) ==
    IF i > Len(sp) THEN st
    ELSE IF i \in st.used THEN sweep(sp, rounds, roundNumber, i + 1, st)
    ELSE LET best == findBestOpponent(sp, rounds, st.used, i, i + 1, 0, Infinity)
             fallback == findFallback(sp, st.used, i)
             isOddNumberOfPlayers == Len(sp) % 2 = 1
             nxt ==
               IF best # 0 THEN
                 [st EXCEPT !.pairings = Append(@, gamePairing(sp[i], sp[best], roundNumber)),
                            !.used = @ \cup {i, best}]
               ELSE IF fallback # 0 THEN
                 [st EXCEPT !.pairings = Append(@, gamePairing(sp[i], sp[fallback], roundNumber)),
                            !.used = @ \cup {i, fallback}]
               ELSE IF isOddNumberOfPlayers /\ ~st.byeGiven THEN
                 [st EXCEPT !.pairings = Append(@, byePairing(sp[i], roundNumber)),
                            !.byeGiven = TRUE,
                            !.used = @ \cup {i}]
               ELSE
                 [st EXCEPT !.used = @ \cup {i},
                            !.unpaired = @ \cup {i}]
         IN  sweep(sp, rounds, roundNumber, i + 1, nxt)

sweepStart == [pairings |-> <<>>, used |-> {}, byeGiven |-> FALSE, unpaired |-> {}]

\* the function pairing the disabled players too
calculateSwissPairingsNoFilter(players, roundNumber, rounds) ==
    IF Len(players) < 2 THEN <<>>
    ELSE sweep(sortedPlayers(players), rounds, roundNumber, 1, sweepStart).pairings

calculateSwissPairings(players, roundNumber, rounds) ==
    IF Len(players) < 2 THEN <<>>
    ELSE IF Len(activePlayers(players)) < 2 THEN <<>>
    ELSE sweep(sortedPlayers(activePlayers(players)), rounds, roundNumber, 1,
               sweepStart).pairings

(***************************************************************************)
(* calculateSwissPairings, the revision of src/App.jsx: no filter on       *)
(* disabled, a running best with <=, and a bye whenever no unmet opponent  *)
(* is left.                                                                *)
(***************************************************************************)
RECURSIVE findBestOpponentV1(_, _, _, _, _, _, _)
findBestOpponentV1(sp, rounds, used, i, j, best, minScoreDiff) ==
    IF j > Len(sp) THEN best
    ELSE IF j \in used
    THEN findBestOpponentV1(sp, rounds, used, i, j + 1, best, minScoreDiff)
    ELSE LET scoreDiff == Abs(sp[i].score - sp[j].score)
             played == havePlayed(rounds, sp[i].id, sp[j].id)
         IN  IF ~played /\ scoreDiff <= minScoreDiff
             THEN findBestOpponentV1(sp, rounds, used, i, j + 1, j, scoreDiff)
             ELSE findBestOpponentV1(sp, rounds, used, i, j + 1, best, minScoreDiff)

RECURSIVE sweepV1(_, _, _, _, _)
sweepV1(sp, rounds, roundNumber, i, st) ==
    IF i > Len(sp) THEN st
    ELSE IF i \in st.used THEN sweepV1(sp, rounds, roundNumber, i + 1, st)
    ELSE LET best == findBestOpponentV1(sp, rounds, st.used, i, i + 1, 0, Infinity)
             nxt ==
               IF best # 0 THEN
                 [st EXCEPT !.pairings = Append(@, gamePairing(sp[i], sp[best], roundNumber)),
                            !.used = @ \cup {i, best}]
               ELSE
                 [st EXCEPT !.pairings = Append(@, byePairing(sp[i], roundNumber)),
                            !.used = @ \cup {i}]
         IN  sweepV1(sp, rounds, roundNumber, i + 1, nxt)

\* the old revision behaving as the current one does
calculateSwissPairingsAsCurrent(players, roundNumber, rounds) ==
    calculateSwissPairings(players, roundNumber, rounds)

calculateSwissPairingsV1(players, roundNumber, rounds) ==
    IF Len(players) < 2 THEN <<>>
    ELSE sweepV1(sortedPlayers(players), rounds, roundNumber, 1, sweepStart).pairings

(***************************************************************************)
(* The in-memory server.                                                   *)
(***************************************************************************)
\* inMemoryDB.players.filter(p => p.tournamentId === id)
tournamentPlayers(players, id) ==
    SelectSeq(players, LAMBDA p : p.tournamentId = id)

\* inMemoryDB.rounds.filter(...).map(round => ({...round, pairings: ...}))
tournamentRounds(rounds, pairings, id) ==
    LET rs == SelectSeq(rounds, LAMBDA r : r.tournamentId = id)
    IN  [k \in 1..Len(rs) |->
            [id |-> rs[k].id, tournamentId |-> rs[k].tournamentId,
             roundNumber |-> rs[k].roundNumber,
             pairings |-> SelectSeq(pairings, LAMBDA p : p.roundId = rs[k].id)]]

\* a draw counted for white alone
pairingScoreDrawToWhite(pairing, id) ==
    IF pairing.white = id
    THEN (IF pairing.result = "1-0" THEN 2
          ELSE IF pairing.result = "0.5-0.5" THEN 1 ELSE 0)
    ELSE IF pairing.black = id
    THEN (IF pairing.result = "0-1" THEN 2 ELSE 0)
    ELSE 0

\* what one pairing adds to the score of player id, in half points
pairingScore(pairing, id) ==
    IF pairing.white = id
    THEN (IF pairing.result = "1-0" THEN 2
          ELSE IF pairing.result = "0.5-0.5" THEN 1 ELSE 0)
    ELSE IF pairing.black = id
    THEN (IF pairing.result = "0-1" THEN 2
          ELSE IF pairing.result = "0.5-0.5" THEN 1 ELSE 0)
    ELSE 0

RECURSIVE sumScore(_, _)
sumScore(ps, id) ==
    IF ps = <<>> THEN 0 ELSE pairingScore(Head(ps), id) + sumScore(Tail(ps), id)

\* the recomputation adding the sum to the score already stored
updatePlayerScoresAdding(players, rounds, pairings, tournamentId) ==
    LET roundIds == {rounds[k].id : k \in {x \in 1..Len(rounds) :
                                       rounds[x].tournamentId = tournamentId}}
        counted == SelectSeq(pairings, LAMBDA p : p.roundId \in roundIds)
    IN  [k \in 1..Len(players) |->
            IF players[k].tournamentId = tournamentId
            THEN [players[k] EXCEPT !.score = @ + sumScore(counted, players[k].id)]
            ELSE players[k]]

\* no recomputation: every stored score stays
updatePlayerScoresKeeping(players, rounds, pairings, tournamentId) == players

\* updatePlayerScores(tournamentId): the players array after it ran
updatePlayerScores(players, rounds, pairings, tournamentId) ==
    LET roundIds == {rounds[k].id : k \in {x \in 1..Len(rounds) :
                                       rounds[x].tournamentId = tournamentId}}
        counted == SelectSeq(pairings, LAMBDA p : p.roundId \in roundIds)
    IN  [k \in 1..Len(players) |->
            IF players[k].tournamentId = tournamentId
            THEN [players[k] EXCEPT !.score = sumScore(counted, players[k].id)]
            ELSE players[k]]

(***************************************************************************)
(* The socket relay of the server and the listeners of the client.         *)
(***************************************************************************)
\* socket.to(`tournament-${tournamentId}`).emit(event, { tournamentId }): the
\* inboxes after viewer v's socket sent the event to the room.  An inbox is
\* the set of events waiting: a listener sets state from the payload alone,
\* so handling an event twice is handling it once.
emit(v, tournamentId, event) ==
    [w \in Viewers |-> IF w # v /\ tournamentId \in joined[w]
                       THEN inbox[w] \cup {event} ELSE inbox[w]]

\* socket.on('tournamentUpdated', ...) and socket.on('roundUpdated', ...): the
\* payload is { tournamentId }, an object with no id, maxRounds, players or rounds
Deliver(w, event) ==
    /\ event \in inbox[w]
    /\ inbox' = [inbox EXCEPT ![w] = @ \ {event}]
    /\ IF event = TournamentUpdated
       THEN /\ cTournament' = [cTournament EXCEPT ![w] = UndefinedTournament]
            /\ cPlayers' = [cPlayers EXCEPT ![w] = <<>>]
            /\ cRounds' = [cRounds EXCEPT ![w] = <<>>]
       ELSE UNCHANGED clientVars          \* setCurrentRound only
    /\ UNCHANGED <<dbVars, joined, pgVars, pairVars>>

(***************************************************************************)
(* The client handlers, each with the request it sends, the server's       *)
(* handler and the state the response sets.                                *)
(***************************************************************************)
\* viewTournament: GET /api/tournaments/:id
ViewTournament(v) ==
    /\ cTournament' = [cTournament EXCEPT ![v] = TheTournament]
    /\ cPlayers' = [cPlayers EXCEPT ![v] = tournamentPlayers(dbPlayers, TheTournament)]
    /\ cRounds' = [cRounds EXCEPT ![v] =
                      tournamentRounds(dbRounds, dbPairings, TheTournament)]
    /\ joined' = [joined EXCEPT ![v] = @ \cup {TheTournament}]
    /\ UNCHANGED <<dbVars, inbox, pgVars, pairVars>>

\* addPlayer: POST /api/tournaments/:id/players
AddPlayer(v) ==
    /\ cTournament[v] # NoTournament
    /\ nextPlayerId <= MaxPlayers
    /\ LET player == [id |-> nextPlayerId, tournamentId |-> cTournament[v],
                      name |-> NameOf(nextPlayerId), rating |-> RatingOf(nextPlayerId),
                      score |-> 0, disabled |-> FALSE]
       IN  /\ dbPlayers' = Append(dbPlayers, player)
           /\ cPlayers' = [cPlayers EXCEPT ![v] =
                              tournamentPlayers(dbPlayers', cTournament[v])]
    /\ nextPlayerId' = nextPlayerId + 1
    /\ inbox' = emit(v, cTournament[v], TournamentUpdated)
    /\ UNCHANGED <<dbRounds, dbPairings, maxRounds, nextRoundId, nextPairingId,
                   cTournament, cRounds, joined, pgVars, pairVars>>

\* togglePlayerDisabled: PUT /api/tournaments/:id/players/:playerId
TogglePlayerDisabled(v, k) ==
    /\ cTournament[v] # NoTournament
    /\ k \in 1..Len(cPlayers[v])
    /\ LET playerId == cPlayers[v][k].id
           disabled == ~cPlayers[v][k].disabled
       IN  /\ dbPlayers' = [x \in 1..Len(dbPlayers) |->
                               IF dbPlayers[x].id = playerId
                               THEN [dbPlayers[x] EXCEPT !.disabled = disabled]
                               ELSE dbPlayers[x]]
           /\ cPlayers' = [cPlayers EXCEPT ![v] =
                              tournamentPlayers(dbPlayers', cTournament[v])]
    /\ inbox' = emit(v, cTournament[v], TournamentUpdated)
    /\ UNCHANGED <<dbRounds, dbPairings, maxRounds, nextPlayerId, nextRoundId,
                   nextPairingId, cTournament, cRounds, joined, pgVars, pairVars>>

\* deletePlayer: DELETE /api/tournaments/:id/players/:playerId
DeletePlayer(v, k) ==
    /\ cTournament[v] # NoTournament
    /\ k \in 1..Len(cPlayers[v])
    /\ LET playerId == cPlayers[v][k].id
       IN  /\ dbPlayers' = SelectSeq(dbPlayers, LAMBDA p : p.id # playerId)
           /\ dbPairings' = SelectSeq(dbPairings,
                                LAMBDA p : p.white # playerId /\ p.black # playerId)
           /\ cPlayers' = [cPlayers EXCEPT ![v] =
                              tournamentPlayers(dbPlayers', cTournament[v])]
    /\ inbox' = emit(v, cTournament[v], TournamentUpdated)
    /\ UNCHANGED <<dbRounds, maxRounds, nextPlayerId, nextRoundId, nextPairingId,
                   cTournament, cRounds, joined, pgVars, pairVars>>

\* the Generate New Round button is enabled: rounds.length >= maxRounds is
\* false, also when currentTournament.maxRounds is undefined
canGenerate(v) ==
    /\ cTournament[v] = TheTournament => Len(cRounds[v]) < maxRounds
    /\ Len(cPlayers[v]) >= 2

\* startNextRound: POST /api/tournaments/:id/rounds
StartNextRound(v) ==
    /\ cTournament[v] # NoTournament
    /\ canGenerate(v)
    /\ nextRoundId <= MaxStarts
    /\ LET roundNumber == Len(cRounds[v]) + 1
           pairings == calculateSwissPairings(cPlayers[v], roundNumber, cRounds[v])
           round == [id |-> nextRoundId, tournamentId |-> cTournament[v],
                     roundNumber |-> roundNumber]
           newPairings == [k \in 1..Len(pairings) |->
                              [id |-> nextPairingId + k - 1, roundId |-> round.id,
                               white |-> pairings[k].white, black |-> pairings[k].black,
                               whiteName |-> pairings[k].whiteName,
                               blackName |-> pairings[k].blackName,
                               result |-> pairings[k].result]]
       IN  /\ dbRounds' = Append(dbRounds, round)
           /\ dbPairings' = dbPairings \o newPairings
           /\ nextPairingId' = nextPairingId + Len(pairings)
           /\ cRounds' = [cRounds EXCEPT ![v] =
                             tournamentRounds(dbRounds', dbPairings', cTournament[v])]
    /\ nextRoundId' = nextRoundId + 1
    /\ inbox' = emit(v, cTournament[v], RoundUpdated)
    /\ UNCHANGED <<dbPlayers, maxRounds, nextPlayerId, cTournament, cPlayers,
                   joined, pgVars, pairVars>>

\* updatePairingResult from the current-round tab:
\* PUT /api/tournaments/:id/pairings/:pairingId
UpdatePairingResult(v, k, result) ==
    /\ cTournament[v] # NoTournament
    /\ cRounds[v] # <<>>
    /\ LET shown == cRounds[v][Len(cRounds[v])].pairings
       IN  /\ k \in 1..Len(shown)
           /\ IF shown[k].result # NoResult
              THEN result = NoResult               \* the Edit button
              ELSE result \in Results              \* the three result buttons
           /\ dbPairings' = [x \in 1..Len(dbPairings) |->
                                IF dbPairings[x].id = shown[k].id
                                THEN [dbPairings[x] EXCEPT !.result = result]
                                ELSE dbPairings[x]]
    /\ dbPlayers' = updatePlayerScores(dbPlayers, dbRounds, dbPairings', cTournament[v])
    /\ cPlayers' = [cPlayers EXCEPT ![v] = tournamentPlayers(dbPlayers', cTournament[v])]
    /\ cRounds' = [cRounds EXCEPT ![v] =
                      tournamentRounds(dbRounds, dbPairings', cTournament[v])]
    /\ inbox' = emit(v, cTournament[v], TournamentUpdated)
    /\ UNCHANGED <<dbRounds, maxRounds, nextPlayerId, nextRoundId, nextPairingId,
                   cTournament, joined, pgVars, pairVars>>

\* deleteRound: DELETE /api/tournaments/:id/rounds/:roundId
DeleteRound(v, k) ==
    /\ cTournament[v] # NoTournament
    /\ k \in 1..Len(cRounds[v])
    /\ LET roundId == cRounds[v][k].id
       IN  /\ dbRounds' = SelectSeq(dbRounds, LAMBDA r : r.id # roundId)
           /\ dbPairings' = SelectSeq(dbPairings, LAMBDA p : p.roundId # roundId)
    /\ dbPlayers' = updatePlayerScores(dbPlayers, dbRounds', dbPairings', cTournament[v])
    /\ cRounds' = [cRounds EXCEPT ![v] =
                      tournamentRounds(dbRounds', dbPairings', cTournament[v])]
    /\ inbox' = emit(v, cTournament[v], TournamentUpdated)
    /\ UNCHANGED <<maxRounds, nextPlayerId, nextRoundId, nextPairingId,
                   cTournament, cPlayers, joined, pgVars, pairVars>>

pairIdle ==
    /\ argPlayers = <<>>
    /\ argRounds = <<>>
    /\ argRoundNumber = 0
    /\ ret = <<>>
    /\ retV1 = <<>>
    /\ pc = "idle"

\* no request of server.js in flight
PgIdle == [pc |-> "idle"]

dbEmpty ==
    /\ dbPlayers = <<>>
    /\ dbRounds = <<>>
    /\ dbPairings = <<>>
    /\ nextPlayerId = 1
    /\ nextRoundId = 1
    /\ nextPairingId = 1
    /\ cTournament = [v \in Viewers |-> NoTournament]
    /\ cPlayers = [v \in Viewers |-> <<>>]
    /\ cRounds = [v \in Viewers |-> <<>>]
    /\ joined = [v \in Viewers |-> {}]
    /\ inbox = [v \in Viewers |-> {}]
    /\ putReq = PgIdle
    /\ getReq = PgIdle
    /\ sentDisabled = {}

\* the tournament was created with some maxRounds and has no players yet
Init == dbEmpty /\ maxRounds \in 1..TournamentMaxRounds /\ pairIdle

Next ==
    \/ \E v \in Organizer : ViewTournament(v)
    \/ \E v \in Organizer : AddPlayer(v)
    \/ \E v \in Organizer : \E k \in 1..MaxPlayers : TogglePlayerDisabled(v, k)
    \/ \E v \in Organizer : \E k \in 1..MaxPlayers : DeletePlayer(v, k)
    \/ \E v \in Organizer : StartNextRound(v)
    \/ \E v \in Organizer : \E k \in 1..MaxPlayers :
          \E result \in Results \cup {NoResult} : UpdatePairingResult(v, k, result)
    \/ \E v \in Organizer : \E k \in 1..MaxStarts : DeleteRound(v, k)

\* one organizer working on the tournament, nobody else connected
Spec == Init /\ [][Next]_vars

NextViewers ==
    \/ \E v \in Viewers : ViewTournament(v)
    \/ \E v \in Viewers : AddPlayer(v)
    \/ \E v \in Viewers : \E k \in 1..MaxPlayers : DeletePlayer(v, k)
    \/ \E v \in Viewers : StartNextRound(v)
    \/ \E v \in Viewers : \E event \in {TournamentUpdated, RoundUpdated} : Deliver(v, event)

\* two viewers of the same tournament, each acting on its own copy of the state
SpecViewers == Init /\ [][NextViewers]_vars

\* the same with every emitted event handled in the end: socket.io delivers
\* to a connected client
SpecNotified ==
    /\ SpecViewers
    /\ \A v \in Viewers : \A event \in {TournamentUpdated, RoundUpdated} :
          WF_vars(Deliver(v, event))

(***************************************************************************)
(* The PostgreSQL server (server.js) behind the same client.  Its tables   *)
(* are dbPlayers (no disabled column), dbRounds and dbPairings (no name    *)
(* columns).  Every await of a handler is a point where another request    *)
(* can run: the update-pairing handler and the tournament-details read are *)
(* modelled query by query, the other handlers in one step.                *)
(***************************************************************************)
NoName == "none"                   \* white_name / black_name: null of the LEFT JOIN
EditedName == "Zoe"                \* the name typed into the edit form

\* the sequences holding each element of the set S once
RECURSIVE orderings(_)
orderings(S) ==
    IF S = {} THEN {<<>>}
    ELSE UNION {{<<x>> \o rest : rest \in orderings(S \ {x})} : x \in S}

\* one row of players as the response carries it: no disabled property, so
\* the client reads player.disabled as undefined, which !player.disabled
\* and player.disabled || false treat as false
pgPlayer(row) ==
    [id |-> row.id, tournamentId |-> row.tournamentId, name |-> row.name,
     rating |-> row.rating, score |-> row.score, disabled |-> FALSE]

\* SELECT * FROM players WHERE tournament_id = $1 ORDER BY rating DESC: the
\* order among equal ratings is whatever the database returns
pgPlayerOrders(players, id) ==
    LET rows == {k \in 1..Len(players) : players[k].tournamentId = id}
    IN  {[x \in 1..Len(o) |-> pgPlayer(players[o[x]])] :
            o \in {q \in orderings(rows) :
                     \A x, y \in 1..Len(q) :
                        x < y => players[q[x]].rating >= players[q[y]].rating}}

\* w.name / b.name of LEFT JOIN players ON the pairing's player id
pgNameOf(players, id) ==
    IF \E k \in 1..Len(players) : players[k].id = id
    THEN players[CHOOSE k \in 1..Len(players) : players[k].id = id].name
    ELSE NoName

\* ORDER BY r.round_number over the tournament's rounds; rounds started one
\* after the other by one organizer have distinct numbers
RECURSIVE sortByRoundNumber(_)
sortByRoundNumber(rs) ==
    IF rs = <<>> THEN <<>>
    ELSE LET n == Len(rs)
             front == sortByRoundNumber(SubSeq(rs, 1, n - 1))
             keep == Cardinality({x \in 1..(n - 1) :
                                     front[x].roundNumber <= rs[n].roundNumber})
         IN  SubSeq(front, 1, keep) \o <<rs[n]>> \o SubSeq(front, keep + 1, n - 1)

\* the rounds of getTournamentDetails: names joined from players at read time
pgRounds(players, rounds, pairings, id) ==
    LET rs == sortByRoundNumber(SelectSeq(rounds, LAMBDA r : r.tournamentId = id))
        mine(r) == SelectSeq(pairings, LAMBDA p : p.roundId = r.id)
    IN  [k \in 1..Len(rs) |->
            [id |-> rs[k].id, tournamentId |-> rs[k].tournamentId,
             roundNumber |-> rs[k].roundNumber,
             pairings |-> [x \in 1..Len(mine(rs[k])) |->
                 [id |-> mine(rs[k])[x].id, roundId |-> rs[k].id,
                  white |-> mine(rs[k])[x].white, black |-> mine(rs[k])[x].black,
                  whiteName |-> pgNameOf(players, mine(rs[k])[x].white),
                  blackName |-> pgNameOf(players, mine(rs[k])[x].black),
                  result |-> mine(rs[k])[x].result]]]]

\* the SUM(CASE ...) of updatePlayerScores for one player, in half points
pgTotalScore(rounds, pairings, id, tournamentId) ==
    LET roundIds == {rounds[k].id : k \in {x \in 1..Len(rounds) :
                                       rounds[x].tournamentId = tournamentId}}
    IN  sumScore(SelectSeq(pairings, LAMBDA p : p.roundId \in roundIds), id)

\* GET /api/tournaments/:id, first the players query of getTournamentDetails
PgGetPlayers(v) ==
    /\ getReq.pc = "idle"
    /\ \E ps \in pgPlayerOrders(dbPlayers, TheTournament) :
          getReq' = [pc |-> "rounds", viewer |-> v, players |-> ps]
    /\ UNCHANGED <<dbVars, clientVars, socketVars, putReq, sentDisabled, pairVars>>

\* then its rounds query, the response and viewTournament's setters
PgGetRounds ==
    /\ getReq.pc = "rounds"
    /\ cTournament' = [cTournament EXCEPT ![getReq.viewer] = TheTournament]
    /\ cPlayers' = [cPlayers EXCEPT ![getReq.viewer] = getReq.players]
    /\ cRounds' = [cRounds EXCEPT ![getReq.viewer] =
                      pgRounds(dbPlayers, dbRounds, dbPairings, TheTournament)]
    /\ joined' = [joined EXCEPT ![getReq.viewer] = @ \cup {TheTournament}]
    /\ getReq' = PgIdle
    /\ UNCHANGED <<dbVars, inbox, putReq, sentDisabled, pairVars>>

\* addPlayer against server.js (a tournament id that is no uuid fails the INSERT)
PgAddPlayer(v) ==
    /\ cTournament[v] = TheTournament
    /\ nextPlayerId <= MaxPlayers
    /\ dbPlayers' = Append(dbPlayers,
                      [id |-> nextPlayerId, tournamentId |-> TheTournament,
                       name |-> NameOf(nextPlayerId), rating |-> RatingOf(nextPlayerId),
                       score |-> 0])
    /\ \E ps \in pgPlayerOrders(dbPlayers', TheTournament) :
          cPlayers' = [cPlayers EXCEPT ![v] = ps]
    /\ nextPlayerId' = nextPlayerId + 1
    /\ inbox' = emit(v, TheTournament, TournamentUpdated)
    /\ UNCHANGED <<dbRounds, dbPairings, maxRounds, nextRoundId, nextPairingId,
                   cTournament, cRounds, joined, pgVars, pairVars>>

\* togglePlayerDisabled against server.js: the body has no name and no rating,
\* so no UPDATE runs and disabled is dropped
PgTogglePlayerDisabled(v, k) ==
    /\ cTournament[v] = TheTournament
    /\ k \in 1..Len(cPlayers[v])
    /\ LET playerId == cPlayers[v][k].id
           disabled == ~cPlayers[v][k].disabled
       IN  sentDisabled' = IF disabled THEN sentDisabled \cup {playerId}
                           ELSE sentDisabled \ {playerId}
    /\ \E ps \in pgPlayerOrders(dbPlayers, TheTournament) :
          cPlayers' = [cPlayers EXCEPT ![v] = ps]
    /\ inbox' = emit(v, TheTournament, TournamentUpdated)
    /\ UNCHANGED <<dbVars, cTournament, cRounds, joined, putReq, getReq, pairVars>>

\* updatePlayer against server.js with a new name and the rating unchanged
PgUpdatePlayer(v, k) ==
    /\ cTournament[v] = TheTournament
    /\ k \in 1..Len(cPlayers[v])
    /\ cPlayers[v][k].name # EditedName
    /\ dbPlayers' = [x \in 1..Len(dbPlayers) |->
                        IF dbPlayers[x].id = cPlayers[v][k].id
                        THEN [dbPlayers[x] EXCEPT !.name = EditedName]
                        ELSE dbPlayers[x]]
    /\ \E ps \in pgPlayerOrders(dbPlayers', TheTournament) :
          cPlayers' = [cPlayers EXCEPT ![v] = ps]
    /\ inbox' = emit(v, TheTournament, TournamentUpdated)
    /\ UNCHANGED <<dbRounds, dbPairings, maxRounds, nextPlayerId, nextRoundId,
                   nextPairingId, cTournament, cRounds, joined, pgVars, pairVars>>

\* startNextRound against server.js
PgStartNextRound(v) ==
    /\ cTournament[v] = TheTournament
    /\ canGenerate(v)
    /\ nextRoundId <= MaxStarts
    /\ LET roundNumber == Len(cRounds[v]) + 1
           pairings == calculateSwissPairings(cPlayers[v], roundNumber, cRounds[v])
       IN  /\ dbRounds' = Append(dbRounds, [id |-> nextRoundId,
                                            tournamentId |-> TheTournament,
                                            roundNumber |-> roundNumber])
           /\ dbPairings' = dbPairings \o
                  [k \in 1..Len(pairings) |->
                      [id |-> nextPairingId + k - 1, roundId |-> nextRoundId,
                       white |-> pairings[k].white, black |-> pairings[k].black,
                       result |-> pairings[k].result]]
           /\ nextPairingId' = nextPairingId + Len(pairings)
    /\ cRounds' = [cRounds EXCEPT ![v] =
                      pgRounds(dbPlayers, dbRounds', dbPairings', TheTournament)]
    /\ nextRoundId' = nextRoundId + 1
    /\ inbox' = emit(v, TheTournament, RoundUpdated)
    /\ UNCHANGED <<dbPlayers, maxRounds, nextPlayerId, cTournament, cPlayers,
                   joined, pgVars, pairVars>>

\* updatePairingResult against server.js: UPDATE pairings SET result
PgUpdatePairing(v, k, result) ==
    /\ putReq.pc = "idle"
    /\ cTournament[v] = TheTournament
    /\ cRounds[v] # <<>>
    /\ LET shown == cRounds[v][Len(cRounds[v])].pairings
       IN  /\ k \in 1..Len(shown)
           /\ IF shown[k].result # NoResult
              THEN result = NoResult
              ELSE result \in Results
           /\ dbPairings' = [x \in 1..Len(dbPairings) |->
                                IF dbPairings[x].id = shown[k].id
                                THEN [dbPairings[x] EXCEPT !.result = result]
                                ELSE dbPairings[x]]
    /\ putReq' = [pc |-> "select", op |-> "pairing", viewer |-> v]
    /\ UNCHANGED <<dbPlayers, dbRounds, maxRounds, nextPlayerId, nextRoundId,
                   nextPairingId, clientVars, socketVars, getReq, sentDisabled,
                   pairVars>>

\* updatePlayerScores: SELECT id FROM players WHERE tournament_id = $1
PgSelectPlayerIds ==
    /\ putReq.pc = "select"
    /\ LET ids == {dbPlayers[k].id : k \in {x \in 1..Len(dbPlayers) :
                                      dbPlayers[x].tournamentId = TheTournament}}
       IN  putReq' = [pc |-> IF ids = {} THEN "respond" ELSE "sum", op |-> putReq.op,
                      viewer |-> putReq.viewer, todo |-> ids]
    /\ UNCHANGED <<dbVars, clientVars, socketVars, getReq, sentDisabled, pairVars>>

\* updatePlayerScores: the SELECT SUM(...) for the next player of the rows
PgSelectSum ==
    /\ putReq.pc = "sum"
    /\ \E id \in putReq.todo :
          putReq' = [pc |-> "update", op |-> putReq.op, viewer |-> putReq.viewer,
                     todo |-> putReq.todo, player |-> id,
                     score |-> pgTotalScore(dbRounds, dbPairings, id, TheTournament)]
    /\ UNCHANGED <<dbVars, clientVars, socketVars, getReq, sentDisabled, pairVars>>

\* updatePlayerScores: UPDATE players SET score = $1 WHERE id = $2
PgUpdateScore ==
    /\ putReq.pc = "update"
    /\ dbPlayers' = [x \in 1..Len(dbPlayers) |->
                        IF dbPlayers[x].id = putReq.player
                        THEN [dbPlayers[x] EXCEPT !.score = putReq.score]
                        ELSE dbPlayers[x]]
    /\ LET rest == putReq.todo \ {putReq.player}
       IN  putReq' = [pc |-> IF rest = {} THEN "respond" ELSE "sum", op |-> putReq.op,
                      viewer |-> putReq.viewer, todo |-> rest]
    /\ UNCHANGED <<dbRounds, dbPairings, maxRounds, nextPlayerId, nextRoundId,
                   nextPairingId, clientVars, socketVars, getReq, sentDisabled,
                   pairVars>>

\* the response of the update-pairing request and updatePairingResult's setters
PgRespondPairing ==
    /\ putReq.pc = "respond"
    /\ putReq.op = "pairing"
    /\ \E ps \in pgPlayerOrders(dbPlayers, TheTournament) :
          cPlayers' = [cPlayers EXCEPT ![putReq.viewer] = ps]
    /\ cRounds' = [cRounds EXCEPT ![putReq.viewer] =
                      pgRounds(dbPlayers, dbRounds, dbPairings, TheTournament)]
    /\ cTournament' = [cTournament EXCEPT ![putReq.viewer] = TheTournament]
    /\ inbox' = emit(putReq.viewer, TheTournament, TournamentUpdated)
    /\ putReq' = PgIdle
    /\ UNCHANGED <<dbVars, joined, getReq, sentDisabled, pairVars>>

\* deleteRound against server.js: DELETE FROM pairings WHERE round_id = $1
PgDeleteRound(v, k) ==
    /\ putReq.pc = "idle"
    /\ cTournament[v] = TheTournament
    /\ k \in 1..Len(cRounds[v])
    /\ LET roundId == cRounds[v][k].id
       IN  /\ dbPairings' = SelectSeq(dbPairings, LAMBDA p : p.roundId # roundId)
           /\ putReq' = [pc |-> "round", op |-> "round", viewer |-> v,
                         roundId |-> roundId]
    /\ UNCHANGED <<dbPlayers, dbRounds, maxRounds, nextPlayerId, nextRoundId,
                   nextPairingId, clientVars, socketVars, getReq, sentDisabled,
                   pairVars>>

\* the delete-round handler: DELETE FROM rounds WHERE id = $1
PgDeleteRoundRow ==
    /\ putReq.pc = "round"
    /\ dbRounds' = SelectSeq(dbRounds, LAMBDA r : r.id # putReq.roundId)
    /\ putReq' = [pc |-> "select", op |-> "round", viewer |-> putReq.viewer]
    /\ UNCHANGED <<dbPlayers, dbPairings, maxRounds, nextPlayerId, nextRoundId,
                   nextPairingId, clientVars, socketVars, getReq, sentDisabled,
                   pairVars>>

\* the response of the delete-round request and deleteRound's setters
PgRespondRound ==
    /\ putReq.pc = "respond"
    /\ putReq.op = "round"
    /\ cRounds' = [cRounds EXCEPT ![putReq.viewer] =
                      pgRounds(dbPlayers, dbRounds, dbPairings, TheTournament)]
    /\ cTournament' = [cTournament EXCEPT ![putReq.viewer] = TheTournament]
    /\ inbox' = emit(putReq.viewer, TheTournament, TournamentUpdated)
    /\ putReq' = PgIdle
    /\ UNCHANGED <<dbVars, cPlayers, joined, getReq, sentDisabled, pairVars>>

NextPg ==
    \/ \E v \in Organizer : PgGetPlayers(v)
    \/ PgGetRounds
    \/ \E v \in Organizer : PgAddPlayer(v)
    \/ \E v \in Organizer : \E k \in 1..MaxPlayers : PgTogglePlayerDisabled(v, k)
    \/ \E v \in Organizer : \E k \in 1..MaxPlayers : PgUpdatePlayer(v, k)
    \/ \E v \in Organizer : PgStartNextRound(v)

\* the organizer managing players and rounds against server.js
SpecPg == Init /\ [][NextPg]_vars

\* server.js after the organizer added n players and generated round 1
pgRoundOneGenerated(most) ==
    /\ \E n \in 2..most :
         /\ dbPlayers = [k \in 1..n |->
                            [id |-> k, tournamentId |-> TheTournament,
                             name |-> NameOf(k), rating |-> RatingOf(k), score |-> 0]]
         /\ nextPlayerId = n + 1
    /\ \E ps \in pgPlayerOrders(dbPlayers, TheTournament) :
         LET pairings == calculateSwissPairings(ps, 1, <<>>)
         IN  /\ dbPairings = [k \in 1..Len(pairings) |->
                                 [id |-> k, roundId |-> 1,
                                  white |-> pairings[k].white,
                                  black |-> pairings[k].black,
                                  result |-> pairings[k].result]]
             /\ nextPairingId = Len(pairings) + 1
             /\ cPlayers = [v \in Viewers |-> IF v \in Organizer THEN ps ELSE <<>>]
    /\ dbRounds = <<[id |-> 1, tournamentId |-> TheTournament, roundNumber |-> 1]>>
    /\ nextRoundId = 2
    /\ maxRounds = TournamentMaxRounds
    /\ cTournament = [v \in Viewers |->
                         IF v \in Organizer THEN TheTournament ELSE NoTournament]
    /\ cRounds = [v \in Viewers |->
                     IF v \in Organizer
                     THEN pgRounds(dbPlayers, dbRounds, dbPairings, TheTournament)
                     ELSE <<>>]
    /\ joined = [v \in Viewers |-> IF v \in Organizer THEN {TheTournament} ELSE {}]
    /\ inbox = [v \in Viewers |-> {}]
    /\ putReq = PgIdle
    /\ getReq = PgIdle
    /\ sentDisabled = {}
    /\ pairIdle

InitPgResults == pgRoundOneGenerated(MaxSeated)

NextPgResults ==
    \/ \E v \in Viewers : PgGetPlayers(v)
    \/ PgGetRounds
    \/ \E v \in Organizer : \E k \in 1..MaxPlayers :
          \E result \in Results \cup {NoResult} : PgUpdatePairing(v, k, result)
    \/ PgSelectPlayerIds
    \/ PgSelectSum
    \/ PgUpdateScore
    \/ PgRespondPairing
    \/ \E v \in Viewers : Deliver(v, TournamentUpdated)

\* the organizer recording results of round 1 against server.js while the
\* tournament is being read
SpecPgResults == InitPgResults /\ [][NextPgResults]_vars

(***************************************************************************)
(* The pairing function on its own: every input within the bounds, then    *)
(* one call of each revision.                                              *)
(***************************************************************************)
SortedSeq(S) ==
    [k \in 1..Cardinality(S) |-> CHOOSE x \in S : Cardinality({y \in S : y < x}) = k - 1]

AllPairs(n) == {pr \in (1..n) \X (1..n) : pr[1] < pr[2]}

\* the rounds array of a history in which exactly the pairs of met were played:
\* the pairs with the same (white + black) % m share no player and form one round
historyRounds(met, n) ==
    LET m == IF n % 2 = 1 THEN n ELSE n + 1
        slot(pr) == (pr[1] + pr[2]) % m
        slots == SortedSeq({slot(pr) : pr \in met})
        whites(r) == SortedSeq({pr[1] : pr \in {q \in met : slot(q) = slots[r]}})
        blackOf(w, r) == (CHOOSE q \in met : q[1] = w /\ slot(q) = slots[r])[2]
    IN  [r \in 1..Len(slots) |->
            [id |-> r, tournamentId |-> TheTournament, roundNumber |-> r,
             pairings |-> [k \in 1..Len(whites(r)) |->
                 [id |-> 10 * r + k, roundId |-> r,
                  white |-> whites(r)[k], black |-> blackOf(whites(r)[k], r),
                  whiteName |-> NameOf(whites(r)[k]),
                  blackName |-> NameOf(blackOf(whites(r)[k], r)),
                  result |-> NoResult]]]]

inputPlayers(n, score, absent) ==
    [k \in 1..n |-> [id |-> k, tournamentId |-> TheTournament, name |-> NameOf(k),
                     rating |-> RatingOf(k), score |-> score[k],
                     disabled |-> k \in absent]]

\* A (score 2), B (score 2), C (score 1), D (score 1), A-B played in round 1
examplePlayers == inputPlayers(4, <<4, 4, 2, 2>>, {})
exampleRounds == historyRounds({<<1, 2>>}, 4)

InitPairing ==
    /\ dbEmpty
    /\ \/ \E n \in 2..MaxN :
            \E met \in {m \in SUBSET AllPairs(n) : Cardinality(m) <= MaxMet} :
               /\ argRounds = historyRounds(met, n)
               /\ \E score \in [1..n -> Scores] :
                    \E absent \in {{}} \cup {{k} : k \in 1..n} :
                       argPlayers = inputPlayers(n, score, absent)
       \/ /\ argRounds = exampleRounds
          /\ argPlayers = examplePlayers
    /\ argRoundNumber \in IF argRounds = <<>> THEN 1..MaxRoundNumber
                                             ELSE {Len(argRounds) + 1}
    /\ maxRounds = TournamentMaxRounds
    /\ ret = <<>>
    /\ retV1 = <<>>
    /\ pc = "ready"

\* one call of each revision of the function on the same arguments
CallPairings ==
    /\ pc = "ready"
    /\ ret' = calculateSwissPairings(argPlayers, argRoundNumber, argRounds)
    /\ retV1' = calculateSwissPairingsV1(argPlayers, argRoundNumber, argRounds)
    /\ pc' = "done"
    /\ UNCHANGED <<dbVars, clientVars, socketVars, pgVars, argPlayers, argRounds,
                   argRoundNumber>>

NextPairing == CallPairings

SpecPairing == InitPairing /\ [][NextPairing]_vars

\* the same call on every list of competitors who are all present, the round
\* number being the one the client passes (rounds.length + 1)
InitWalk ==
    /\ dbEmpty
    /\ \E n \in 2..MaxN :
         \E met \in {m \in SUBSET AllPairs(n) : Cardinality(m) <= MaxMet} :
            /\ argRounds = historyRounds(met, n)
            /\ \E score \in [1..n -> Scores] : argPlayers = inputPlayers(n, score, {})
    /\ argRoundNumber = Len(argRounds) + 1
    /\ maxRounds = TournamentMaxRounds
    /\ ret = <<>>
    /\ retV1 = <<>>
    /\ pc = "ready"

SpecWalk == InitWalk /\ [][NextPairing]_vars

\* n scores that all differ, 0..n in half points without the value skip, in
\* rising or falling input order; rankedScores(6, 1, FALSE) is 3, 2.5, 2, 1.5, 1, 0
rankedScores(n, skip, rising) ==
    [k \in 1..n |-> LET v == IF rising THEN k - 1 ELSE n - k
                    IN  IF v >= skip THEN v + 1 ELSE v]

\* the same call on competitors whose scores all differ
InitRanked ==
    /\ dbEmpty
    /\ \E n \in 2..MaxRanked :
         \E met \in {m \in SUBSET AllPairs(n) : Cardinality(m) <= MaxRankedMet} :
            /\ argRounds = historyRounds(met, n)
            /\ \E skip \in 0..n : \E rising \in BOOLEAN :
                  argPlayers = inputPlayers(n, rankedScores(n, skip, rising), {})
    /\ argRoundNumber = Len(argRounds) + 1
    /\ maxRounds = TournamentMaxRounds
    /\ ret = <<>>
    /\ retV1 = <<>>
    /\ pc = "ready"

SpecRanked == InitRanked /\ [][NextPairing]_vars

(***************************************************************************)
(* The score recomputation on its own: the in-memory server holding a      *)
(* tournament whose round 1 was just generated, with any stored scores (a  *)
(* stored score can be stale in either direction: round creation and       *)
(* delete-player store pairings or remove them without recomputing), and   *)
(* the organizer recording and clearing results.                           *)
(***************************************************************************)
roundOneGenerated(most) ==
    /\ \E n \in 2..most : \E score \in [1..n -> Scores] :
         /\ dbPlayers = inputPlayers(n, score, {})
         /\ nextPlayerId = n + 1
    /\ LET pairings == calculateSwissPairings(dbPlayers, 1, <<>>)
       IN  /\ dbPairings = [k \in 1..Len(pairings) |->
                                [id |-> k, roundId |-> 1,
                                 white |-> pairings[k].white,
                                 black |-> pairings[k].black,
                                 whiteName |-> pairings[k].whiteName,
                                 blackName |-> pairings[k].blackName,
                                 result |-> pairings[k].result]]
           /\ nextPairingId = Len(pairings) + 1
    /\ dbRounds = <<[id |-> 1, tournamentId |-> TheTournament, roundNumber |-> 1]>>
    /\ nextRoundId = 2
    /\ maxRounds = TournamentMaxRounds
    /\ cTournament = [v \in Viewers |->
                         IF v \in Organizer THEN TheTournament ELSE NoTournament]
    /\ cPlayers = [v \in Viewers |-> IF v \in Organizer THEN dbPlayers ELSE <<>>]
    /\ cRounds = [v \in Viewers |->
                     IF v \in Organizer
                     THEN tournamentRounds(dbRounds, dbPairings, TheTournament)
                     ELSE <<>>]
    /\ joined = [v \in Viewers |-> IF v \in Organizer THEN {TheTournament} ELSE {}]
    /\ inbox = [v \in Viewers |-> {}]
    /\ putReq = PgIdle
    /\ getReq = PgIdle
    /\ sentDisabled = {}
    /\ pairIdle

InitScores == roundOneGenerated(MaxScored)

NextScores ==
    \E v \in Organizer : \E k \in 1..MaxScored :
        \E result \in Results \cup {NoResult} : UpdatePairingResult(v, k, result)

SpecScores == InitScores /\ [][NextScores]_vars

(***************************************************************************)
(* Deleting rounds, against either server: the organizer generates rounds,  *)
(* records results and deletes rounds, one request at a time.  A behaviour  *)
(* runs against one server from its first state on; which one is read off   *)
(* the players table (the one of server.js has no disabled column).  The    *)
(* tournament on server.js has two players.                                 *)
(***************************************************************************)
serverIsInMemory ==
    \A k \in 1..Len(dbPlayers) : "disabled" \in DOMAIN dbPlayers[k]

InitRounds == roundOneGenerated(MaxSeated) \/ pgRoundOneGenerated(2)

NextInMemoryRounds ==
    \/ \E v \in Organizer : StartNextRound(v)
    \/ \E v \in Organizer : \E k \in 1..MaxSeated :
          \E result \in Results \cup {NoResult} : UpdatePairingResult(v, k, result)
    \/ \E v \in Organizer : \E k \in 1..MaxStarts : DeleteRound(v, k)

NextPgRounds ==
    \/ \E v \in Organizer : putReq.pc = "idle" /\ PgStartNextRound(v)
    \/ \E v \in Organizer : \E k \in 1..MaxSeated :
          \E result \in Results \cup {NoResult} : PgUpdatePairing(v, k, result)
    \/ \E v \in Organizer : \E k \in 1..MaxStarts : PgDeleteRound(v, k)
    \/ PgDeleteRoundRow
    \/ PgSelectPlayerIds
    \/ PgSelectSum
    \/ PgUpdateScore
    \/ PgRespondPairing
    \/ PgRespondRound

NextRounds ==
    \/ serverIsInMemory /\ NextInMemoryRounds
    \/ ~serverIsInMemory /\ NextPgRounds

SpecRounds == InitRounds /\ [][NextRounds]_vars

(***************************************************************************)
(* The handlers of the in-memory server as any authenticated client can     *)
(* call them: the tournament id of the path and the pairing, player or      *)
(* round id of the path are whatever the request carries.  Two tournaments  *)
(* are stored, each with its players and its round 1 as generated.          *)
(***************************************************************************)
OtherTournament == 2
Tournaments == {TheTournament, OtherTournament}

\* n players of each tournament, as POST /players stores them
apiPlayers(n) ==
    [k \in 1..(2 * n) |->
        [id |-> k, tournamentId |-> IF k <= n THEN TheTournament ELSE OtherTournament,
         name |-> NameOf(k), rating |-> RatingOf(k), score |-> 0, disabled |-> FALSE]]

\* the pairings of a round as POST /rounds stores them, ids from firstId on
storedPairings(pairings, roundId, firstId) ==
    [k \in 1..Len(pairings) |->
        [id |-> firstId + k - 1, roundId |-> roundId,
         white |-> pairings[k].white, black |-> pairings[k].black,
         whiteName |-> pairings[k].whiteName, blackName |-> pairings[k].blackName,
         result |-> pairings[k].result]]

InitApi ==
    /\ \E n \in 2..MaxSeated :
         /\ dbPlayers = apiPlayers(n)
         /\ nextPlayerId = 2 * n + 1
    /\ LET first == calculateSwissPairings(
                        tournamentPlayers(dbPlayers, TheTournament), 1, <<>>)
           second == calculateSwissPairings(
                         tournamentPlayers(dbPlayers, OtherTournament), 1, <<>>)
       IN  /\ dbPairings = storedPairings(first, 1, 1)
                              \o storedPairings(second, 2, Len(first) + 1)
           /\ nextPairingId = Len(first) + Len(second) + 1
    /\ dbRounds = <<[id |-> 1, tournamentId |-> TheTournament, roundNumber |-> 1],
                    [id |-> 2, tournamentId |-> OtherTournament, roundNumber |-> 1]>>
    /\ nextRoundId = 3
    /\ maxRounds = TournamentMaxRounds
    /\ cTournament = [v \in Viewers |-> NoTournament]
    /\ cPlayers = [v \in Viewers |-> <<>>]
    /\ cRounds = [v \in Viewers |-> <<>>]
    /\ joined = [v \in Viewers |-> {}]
    /\ inbox = [v \in Viewers |-> {}]
    /\ putReq = PgIdle
    /\ getReq = PgIdle
    /\ sentDisabled = {}
    /\ pairIdle

\* PUT /api/tournaments/:id/pairings/:pairingId
ApiUpdatePairing(id, pairingId, result) ==
    /\ dbPairings' = [x \in 1..Len(dbPairings) |->
                         IF dbPairings[x].id = pairingId
                         THEN [dbPairings[x] EXCEPT !.result = result]
                         ELSE dbPairings[x]]
    /\ dbPlayers' = updatePlayerScores(dbPlayers, dbRounds, dbPairings', id)
    /\ UNCHANGED <<dbRounds, maxRounds, nextPlayerId, nextRoundId, nextPairingId,
                   clientVars, socketVars, pgVars, pairVars>>

\* DELETE /api/tournaments/:id/players/:playerId
ApiDeletePlayer(id, playerId) ==
    /\ dbPlayers' = SelectSeq(dbPlayers, LAMBDA p : p.id # playerId)
    /\ dbPairings' = SelectSeq(dbPairings,
                         LAMBDA p : p.white # playerId /\ p.black # playerId)
    /\ UNCHANGED <<dbRounds, maxRounds, nextPlayerId, nextRoundId, nextPairingId,
                   clientVars, socketVars, pgVars, pairVars>>

\* DELETE /api/tournaments/:id/rounds/:roundId
ApiDeleteRound(id, roundId) ==
    /\ dbRounds' = SelectSeq(dbRounds, LAMBDA r : r.id # roundId)
    /\ dbPairings' = SelectSeq(dbPairings, LAMBDA p : p.roundId # roundId)
    /\ dbPlayers' = updatePlayerScores(dbPlayers, dbRounds', dbPairings', id)
    /\ UNCHANGED <<maxRounds, nextPlayerId, nextRoundId, nextPairingId,
                   clientVars, socketVars, pgVars, pairVars>>

\* some request addressed to tournament id
addressedTo(id) ==
    \/ \E pairingId \in 1..(nextPairingId - 1) :
          \E result \in Results \cup {NoResult} : ApiUpdatePairing(id, pairingId, result)
    \/ \E playerId \in 1..(nextPlayerId - 1) : ApiDeletePlayer(id, playerId)
    \/ \E roundId \in 1..(nextRoundId - 1) : ApiDeleteRound(id, roundId)

NextApi == \E id \in Tournaments : addressedTo(id)

SpecApi == InitApi /\ [][NextApi]_vars

(***************************************************************************)
(* What the claims speak of, stated from the call's arguments and result   *)
(* and from the stored tables, not from the pairing function's own parts.  *)
(***************************************************************************)
called == pc = "done"
activeIds == {argPlayers[k].id : k \in {x \in 1..Len(argPlayers) : ~argPlayers[x].disabled}}
allIds == {argPlayers[k].id : k \in 1..Len(argPlayers)}

\* some pairing of the history put a and b together
metBefore(a, b) ==
    /\ a # b
    /\ \E r \in 1..Len(argRounds) : \E k \in 1..Len(argRounds[r].pairings) :
          {argRounds[r].pairings[k].white, argRounds[r].pairings[k].black} = {a, b}

isBye(pairing) == pairing.black = NoPlayer
isRematch(pairing) == ~isBye(pairing) /\ metBefore(pairing.white, pairing.black)
byeCount(pairings) == Cardinality({k \in 1..Len(pairings) : isBye(pairings[k])})
appearances(pairings, id) ==
    Cardinality({k \in 1..Len(pairings) : pairings[k].white = id})
    + Cardinality({k \in 1..Len(pairings) : pairings[k].black = id})
\* the players in none of the first k - 1 pairings, other than the white of pairing k
unpairedAt(pairings, k) ==
    {id \in activeIds : /\ id # pairings[k].white
                        /\ \A x \in 1..(k - 1) : /\ pairings[x].white # id
                                                 /\ pairings[x].black # id}

\* C1: with at least 2 active competitors, every active competitor is in exactly
\* one returned pairing (as white, as black or as the white of a bye) and nobody
\* else is in any.
C1_EveryActivePairedOnce ==
    (called /\ Cardinality(activeIds) >= 2) =>
        /\ \A id \in activeIds : appearances(ret, id) = 1
        /\ \A k \in 1..Len(ret) : /\ ret[k].white \in activeIds
                                  /\ ret[k].black \in activeIds \cup {NoPlayer}

\* C1 witness: three active competitors and an absent one were paired, one by a bye
C1_Witness ==
    /\ pc = "done"
    /\ Cardinality(activeIds) = 3
    /\ Len(argPlayers) = 4
    /\ Len(ret) = 2
    /\ byeCount(ret) = 1

byeRule(pairings, competitors) ==
    /\ byeCount(pairings) <= 1
    /\ byeCount(pairings) = 1 => Cardinality(competitors) % 2 = 1

\* C2: one call of calculateSwissPairings returns at most one bye pairing, and
\* returns one only when the number of competitors it pairs is odd; stated of
\* both revisions of the function (the one of src/App.jsx pairs every player).
C2_AtMostOneByeOnlyWhenOdd ==
    /\ called => byeRule(ret, activeIds)
    /\ called => byeRule(retV1, allIds)

\* the same of the current revision alone, which keeps it
C2_CurrentRevisionByes == called => byeRule(ret, activeIds)

\* C3: a returned pairing is a rematch only if, when its white was processed,
\* every competitor still unpaired had already met the white; and for A, B
\* (score 2), C, D (score 1) with A-B played, A-B is not paired again.
C3_RematchOnlyWhenForced ==
    called =>
        /\ \A k \in 1..Len(ret) :
              isRematch(ret[k]) =>
                  \A id \in unpairedAt(ret, k) : metBefore(ret[k].white, id)
        /\ (argPlayers = examplePlayers /\ argRounds = exampleRounds) =>
              \A k \in 1..Len(ret) : {ret[k].white, ret[k].black} # {1, 2}

\* C3 witness: four active competitors, the top one had met all three others
\* and was paired with one of them again
C3_Witness ==
    /\ pc = "done"
    /\ Cardinality(activeIds) = 4
    /\ Len(ret) = 2
    /\ isRematch(ret[1])
    /\ ~isRematch(ret[2])

\* whether the competitors of S can all be paired (one bye if allowed) with no rematch
RECURSIVE canPairAll(_, _)
canPairAll(S, byeLeft) ==
    IF S = {} THEN TRUE
    ELSE LET a == CHOOSE x \in S : \A y \in S : x <= y
         IN  \/ \E b \in S \ {a} : ~metBefore(a, b) /\ canPairAll(S \ {a, b}, byeLeft)
             \/ byeLeft /\ canPairAll(S \ {a}, FALSE)
rematchFreePossible == canPairAll(activeIds, Cardinality(activeIds) % 2 = 1)

\* C4 as stated: whenever some way to pair all active competitors without a
\* rematch exists, no returned pairing is a rematch.
C4_NoRematchWhenAvoidable ==
    (called /\ Cardinality(activeIds) >= 2 /\ rematchFreePossible) =>
        \A k \in 1..Len(ret) : ~isRematch(ret[k])

\* C4 amended: whenever some way to pair all active competitors without a
\* rematch exists, a returned pairing is a rematch only if its white had met
\* every competitor still unpaired when it was processed, and with an even
\* number of active competitors the first returned pairing (the top-ranked
\* competitor's) is not a rematch; later pairings of the sweep may be.
C4_GreedyRematchAvoidance ==
    (called /\ Cardinality(activeIds) >= 2 /\ rematchFreePossible) =>
        /\ Len(ret) >= 1
        /\ Cardinality(activeIds) % 2 = 0 => ~isRematch(ret[1])
        /\ \A k \in 1..Len(ret) :
              isRematch(ret[k]) =>
                  \A id \in unpairedAt(ret, k) : metBefore(ret[k].white, id)

\* C4 witness: a rematch-free pairing of four exists, the sweep paired the top
\* two first and was left with two competitors who had met
C4_Witness ==
    /\ pc = "done"
    /\ rematchFreePossible
    /\ Cardinality(activeIds) = 4
    /\ Len(ret) = 2
    /\ ~isRematch(ret[1])
    /\ isRematch(ret[2])

tournamentOfRound(roundId) ==
    {dbRounds[k].tournamentId : k \in {x \in 1..Len(dbRounds) : dbRounds[x].id = roundId}}
activeStored(id) ==
    {k \in 1..Len(dbPlayers) : dbPlayers[k].tournamentId = id /\ ~dbPlayers[k].disabled}

\* C6: a round is stored only when the tournament has at least 2 active
\* (non-disabled) competitors: with fewer, the request creates no round.
C6_NoRoundWithoutTwoActive ==
    [][Len(dbRounds') > Len(dbRounds) => Cardinality(activeStored(TheTournament)) >= 2]_vars

\* the points (half points) the stored pairings of a player's tournament give the player
RECURSIVE earned(_, _, _)
earned(k, id, tournamentId) ==
    IF k = 0 THEN 0
    ELSE earned(k - 1, id, tournamentId) +
         (IF tournamentId \notin tournamentOfRound(dbPairings[k].roundId) THEN 0
          ELSE IF dbPairings[k].result = "0.5-0.5" /\ id \in {dbPairings[k].white, dbPairings[k].black}
               THEN 1
          ELSE IF dbPairings[k].result = "1-0" /\ dbPairings[k].white = id THEN 2
          ELSE IF dbPairings[k].result = "0-1" /\ dbPairings[k].black = id THEN 2
          ELSE 0)

\* C7: in every reachable state each player's stored score is the sum the
\* stored pairings of the player's tournament give: 1 per win (a bye is a win
\* of its white), 0.5 per draw.
C7_StoredScoreIsSumOfResults ==
    \A k \in 1..Len(dbPlayers) :
        dbPlayers[k].score = earned(Len(dbPairings), dbPlayers[k].id, dbPlayers[k].tournamentId)

\* C8: in every reachable state a bye pairing (black = null) has result '1-0'.
C8_ByeResultFixed ==
    \A k \in 1..Len(dbPairings) :
        dbPairings[k].black = NoPlayer => dbPairings[k].result = "1-0"

\* C9: in every reachable state the round numbers of the tournament's stored
\* rounds are exactly 1..n, with no gap and no duplicate.
C9_RoundNumbersContiguous ==
    LET rs == SelectSeq(dbRounds, LAMBDA r : r.tournamentId = TheTournament)
    IN  /\ {rs[k].roundNumber : k \in 1..Len(rs)} = 1..Len(rs)
        /\ \A x, y \in 1..Len(rs) : rs[x].roundNumber = rs[y].roundNumber => x = y

\* C10: two viewers who read the same rounds and each ask for the next round
\* never both store a round with the same round number.
C10_NoTwoRoundsWithOneNumber ==
    \A x, y \in 1..Len(dbRounds) :
        (/\ dbRounds[x].tournamentId = dbRounds[y].tournamentId
         /\ dbRounds[x].roundNumber = dbRounds[y].roundNumber) => x = y

\* the points (half points) the pairings of a sequence give a player
RECURSIVE pointsIn(_, _)
pointsIn(pairings, id) ==
    IF pairings = <<>> THEN 0
    ELSE pointsIn(Tail(pairings), id) +
         (IF Head(pairings).result = "0.5-0.5"
             /\ id \in {Head(pairings).white, Head(pairings).black} THEN 1
          ELSE IF Head(pairings).result = "1-0" /\ Head(pairings).white = id THEN 2
          ELSE IF Head(pairings).result = "0-1" /\ Head(pairings).black = id THEN 2
          ELSE 0)

\* the same over the rounds of a tournament-details response
RECURSIVE pointsInRounds(_, _)
pointsInRounds(rounds, id) ==
    IF rounds = <<>> THEN 0
    ELSE pointsIn(Head(rounds).pairings, id) + pointsInRounds(Tail(rounds), id)

\* C11: a read of tournament details that completes while an update-pairing
\* request of server.js is being handled (its result is stored, its response
\* not yet sent) never returns players whose scores differ from what the
\* returned pairings give: the stored result and the recomputed scores are
\* seen together or not at all.
C11_NoPartialWriteObserved ==
    [][(getReq.pc = "rounds" /\ getReq'.pc = "idle" /\ putReq.pc # "idle") =>
          \A k \in 1..Len(cPlayers'[getReq.viewer]) :
             cPlayers'[getReq.viewer][k].score =
                pointsInRounds(cRounds'[getReq.viewer], cPlayers'[getReq.viewer][k].id)]_vars

\* C12: the tournament never has more stored rounds than its maxRounds, however
\* many viewers work on it; a generate-next-round request made when maxRounds
\* rounds exist creates none.
C12_RoundsWithinMaxRounds ==
    Cardinality({k \in 1..Len(dbRounds) : dbRounds[k].tournamentId = TheTournament})
        <= maxRounds

\* the players in the pairings a step stored
newlyPaired ==
    UNION {{dbPairings'[x].white, dbPairings'[x].black} :
              x \in {y \in 1..Len(dbPairings') : dbPairings'[y].id >= nextPairingId}}

\* C13: a round generated while a competitor is marked absent (the last
\* update-player request for them sent disabled: true) has the competitor in no
\* pairing, and a round generated from a list of at least two competitors not
\* marked absent has each of them in a pairing.
C13_AbsentNeverPaired ==
    [][Len(dbRounds') > Len(dbRounds) =>
          /\ newlyPaired \cap sentDisabled = {}
          /\ \A v \in Organizer :
                LET present == {cPlayers[v][k].id : k \in 1..Len(cPlayers[v])}
                                   \ sentDisabled
                IN  Cardinality(present) >= 2 => present \subseteq newlyPaired]_vars

\* whiteName and blackName of every pairing of a tournament-details response
namesRead(rounds) ==
    [r \in 1..Len(rounds) |->
        [k \in 1..Len(rounds[r].pairings) |->
            <<rounds[r].pairings[k].whiteName, rounds[r].pairings[k].blackName>>]]

\* C14: when a player's name is edited, every stored pairing reads back with
\* the whiteName and blackName it had before the edit, a bye with blackName 'BYE'.
C14_PairingNamesSnapshotted ==
    [][(/\ Len(dbPlayers') = Len(dbPlayers)
        /\ \E k \in 1..Len(dbPlayers) : dbPlayers'[k].name # dbPlayers[k].name) =>
          LET before == pgRounds(dbPlayers, dbRounds, dbPairings, TheTournament)
              after == pgRounds(dbPlayers', dbRounds', dbPairings', TheTournament)
          IN  /\ namesRead(after) = namesRead(before)
              /\ \A r \in 1..Len(after) : \A k \in 1..Len(after[r].pairings) :
                    after[r].pairings[k].black = NoPlayer =>
                        after[r].pairings[k].blackName = BYE]_vars

\* the position of a competitor in the players argument
inputPosition(id) == CHOOSE k \in 1..Len(argPlayers) : argPlayers[k].id = id

\* C15: the list calculateSwissPairings walks holds exactly the non-disabled
\* competitors of its input, each once, by score descending, then rating
\* descending, competitors equal in both in their input order.
C15_WalkedListFilteredAndSorted ==
    called =>
        LET walked == sortedPlayers(activePlayers(argPlayers))
        IN  /\ Len(walked) = Cardinality(activeIds)
            /\ \A k \in 1..Len(walked) :
                  walked[k] = argPlayers[inputPosition(walked[k].id)] /\ ~walked[k].disabled
            /\ {walked[k].id : k \in 1..Len(walked)} = activeIds
            /\ \A x, y \in 1..Len(walked) :
                  x < y =>
                     \/ walked[x].score > walked[y].score
                     \/ /\ walked[x].score = walked[y].score
                        /\ walked[x].rating > walked[y].rating
                     \/ /\ walked[x].score = walked[y].score
                        /\ walked[x].rating = walked[y].rating
                        /\ inputPosition(walked[x].id) < inputPosition(walked[y].id)

\* C15 witness: four competitors, the second absent; the last has the highest
\* score, the first and third tie in score and rating
C15_Witness ==
    /\ pc = "done"
    /\ Len(argPlayers) = 4
    /\ argPlayers[2].disabled
    /\ argPlayers[1].score = argPlayers[3].score
    /\ argPlayers[1].rating = argPlayers[3].rating
    /\ argPlayers[4].score > argPlayers[1].score
    /\ Len(ret) = 2
    /\ ret[1].white = 4

\* C16: recomputing the scores of the tournament twice in a row gives every
\* player the score that recomputing once gives.
C16_RecomputeIdempotent ==
    LET once == updatePlayerScores(dbPlayers, dbRounds, dbPairings, TheTournament)
    IN  updatePlayerScores(once, dbRounds, dbPairings, TheTournament) = once

\* C16 witness: a game of three players and a bye was recorded as won by
\* black, the scores were recomputed, and recomputing again changes nothing
C16_Witness ==
    /\ Len(dbPlayers) = 3
    /\ \E x \in 1..Len(dbPairings) :
          /\ dbPairings[x].black # NoPlayer
          /\ dbPairings[x].result = "0-1"
          /\ \E k \in 1..Len(dbPlayers) :
                dbPlayers[k].id = dbPairings[x].black /\ dbPlayers[k].score = 2
    /\ updatePlayerScores(dbPlayers, dbRounds, dbPairings, TheTournament) = dbPlayers

\* C17: when a pairing without a result is given '0.5-0.5', the recomputed
\* score of its white and of its black is 0.5 more than the stored pairings
\* gave them before, and every other player's is what they gave before.
C17_DrawAddsHalfToBoth ==
    [][\A x \in 1..Len(dbPairings) :
          (/\ Len(dbPairings') = Len(dbPairings)
           /\ dbPairings'[x].id = dbPairings[x].id
           /\ dbPairings[x].result = NoResult
           /\ dbPairings'[x].result = "0.5-0.5") =>
             /\ Len(dbPlayers') = Len(dbPlayers)
             /\ \A k \in 1..Len(dbPlayers) :
                   /\ dbPlayers'[k].id = dbPlayers[k].id
                   /\ dbPlayers[k].tournamentId = TheTournament =>
                        dbPlayers'[k].score =
                           earned(Len(dbPairings), dbPlayers[k].id, TheTournament)
                           + (IF dbPlayers[k].id \in {dbPairings[x].white,
                                                      dbPairings[x].black}
                              THEN 1 ELSE 0)]_vars

\* C17 witness: a game was recorded as a draw and both its players hold 0.5
C17_Witness ==
    \E x \in 1..Len(dbPairings) :
        /\ dbPairings[x].result = "0.5-0.5"
        /\ dbPairings[x].black # NoPlayer
        /\ \E k, j \in 1..Len(dbPlayers) :
              /\ dbPlayers[k].id = dbPairings[x].white
              /\ dbPlayers[j].id = dbPairings[x].black
              /\ dbPlayers[k].score = 1
              /\ dbPlayers[j].score = 1
              /\ Len(dbPlayers) = 3

\* every stored score is what the stored pairings give
scoresMatchPairings ==
    \A k \in 1..Len(dbPlayers) :
        dbPlayers[k].score = pointsIn(SelectSeq(dbPairings,
                                 LAMBDA p : dbPlayers[k].tournamentId
                                               \in tournamentOfRound(p.roundId)),
                                      dbPlayers[k].id)

\* C18: a delete-player operation on a tournament whose stored scores match
\* its pairings leaves every remaining player's stored score equal to what the
\* remaining pairings give.
C18_ScoresRecomputedAfterPlayerDelete ==
    [][(Len(dbPlayers') < Len(dbPlayers) /\ scoresMatchPairings) =>
          scoresMatchPairings']_vars

\* C19: exactly 2 active competitors and no prior rounds give exactly one
\* pairing, holding both of them, and no bye, whatever roundNumber is passed.
C19_TwoActiveOnePairing ==
    (called /\ Cardinality(activeIds) = 2 /\ argRounds = <<>>) =>
        /\ Len(ret) = 1
        /\ {ret[1].white, ret[1].black} = activeIds
        /\ byeCount(ret) = 0

\* C19 witness: two active competitors and an absent one, no history, the
\* largest round number
C19_Witness ==
    /\ pc = "done"
    /\ Cardinality(activeIds) = 2
    /\ Len(argPlayers) = 3
    /\ argRounds = <<>>
    /\ argRoundNumber = MaxRoundNumber
    /\ Len(ret) = 1
    /\ ret[1].round = MaxRoundNumber

\* the viewer's local players and rounds are the server's of the tournament
inSync(w) ==
    /\ cPlayers[w] = tournamentPlayers(dbPlayers, TheTournament)
    /\ cRounds[w] = tournamentRounds(dbRounds, dbPairings, TheTournament)

\* C20: once a notification of another viewer's change is on its way to a
\* viewer of the tournament, that viewer's local players and rounds eventually
\* equal the players and rounds the server stores for the tournament.
C20_NotifiedViewerCatchesUp ==
    \A w \in Viewers : (inbox[w] # {}) ~> inSync(w)

\* the score of a competitor of the players argument
scoreOf(id) == argPlayers[inputPosition(id)].score

\* a goes before b in the walked list: higher score, then higher rating, then
\* earlier in the players argument
goesBefore(a, b) ==
    LET pa == argPlayers[inputPosition(a)]
        pb == argPlayers[inputPosition(b)]
    IN  \/ pa.score > pb.score
        \/ pa.score = pb.score /\ pa.rating > pb.rating
        \/ pa.score = pb.score /\ pa.rating = pb.rating
           /\ inputPosition(a) < inputPosition(b)

\* the position of an active competitor in the walked list
placeOf(id) == 1 + Cardinality({o \in activeIds : goesBefore(o, id)})

\* the competitor of S at the lowest position of the walked list
lowestPlaced(S) == CHOOSE id \in S : \A o \in S : placeOf(id) <= placeOf(o)

\* the competitors still unpaired when the white of pairing k was processed
\* that had not met it
unmetAt(pairings, k) ==
    {id \in unpairedAt(pairings, k) : ~metBefore(pairings[k].white, id)}

\* C21: the opponent of the competitor at position i is the lowest-position
\* unused later candidate with the same score that has not met it, if there is
\* one; otherwise, among the unused later candidates that have not met it, the
\* one with the smallest absolute score difference, the lowest position among
\* equal differences.
C21_OpponentByForwardScan ==
    called =>
        \A k \in 1..Len(ret) :
            LET w == ret[k].white
                cand == unmetAt(ret, k)
                same == {id \in cand : scoreOf(id) = scoreOf(w)}
                diff(id) == Abs(scoreOf(w) - scoreOf(id))
                nearest == {id \in cand : \A o \in cand : diff(id) <= diff(o)}
            IN  /\ \A id \in unpairedAt(ret, k) : placeOf(id) > placeOf(w)
                /\ cand # {} =>
                      ret[k].black = IF same # {} THEN lowestPlaced(same)
                                                  ELSE lowestPlaced(nearest)

\* C21 witness: four active competitors, the top one alone on its score, the
\* three others level; the top one had met the second and was given the third
C21_Witness ==
    /\ pc = "done"
    /\ Cardinality(activeIds) = 4
    /\ Len(ret) = 2
    /\ placeOf(ret[1].white) = 1
    /\ placeOf(ret[1].black) = 3
    /\ \A id \in activeIds \ {ret[1].white} :
          /\ scoreOf(id) = scoreOf(ret[1].black)
          /\ scoreOf(id) < scoreOf(ret[1].white)
    /\ \E id \in activeIds : placeOf(id) = 2 /\ metBefore(ret[1].white, id)

\* C22: when the competitor being processed has at least one unused later
\* candidate and has met every one of them, it is paired with the lowest-
\* position unused later candidate, and gets no bye.
C22_ForcedRematchWithFirstFree ==
    called =>
        \A k \in 1..Len(ret) :
            (unpairedAt(ret, k) # {} /\ unmetAt(ret, k) = {}) =>
                /\ ~isBye(ret[k])
                /\ ret[k].black = lowestPlaced(unpairedAt(ret, k))

\* C22 witness: three active competitors, the top one had met both others and
\* was paired again with the second; the third got the bye
C22_Witness ==
    /\ pc = "done"
    /\ Cardinality(activeIds) = 3
    /\ Len(ret) = 2
    /\ placeOf(ret[1].white) = 1
    /\ \A id \in activeIds \ {ret[1].white} : metBefore(ret[1].white, id)
    /\ placeOf(ret[1].black) = 2
    /\ isBye(ret[2])

\* the positions of the walked list that took the branch commented "This
\* should never happen in a proper Swiss system"
unpairedBranch ==
    IF Len(argPlayers) < 2 \/ Len(activePlayers(argPlayers)) < 2 THEN {}
    ELSE sweep(sortedPlayers(activePlayers(argPlayers)), argRounds, argRoundNumber,
               1, sweepStart).unpaired

\* C24: for any input of competitors with unique identifiers and any history,
\* no position of the walk takes the last else branch, which marks a
\* competitor used without adding a pairing.
C24_UnpairedBranchNeverTaken == called => unpairedBranch = {}

\* C24 witness: four active competitors, the last two left to each other had
\* met, and the walk still paired them instead of leaving them out
C24_Witness ==
    /\ pc = "done"
    /\ Cardinality(activeIds) = 4
    /\ Len(ret) = 2
    /\ isRematch(ret[2])
    /\ unpairedBranch = {}

\* C25: the two revisions of calculateSwissPairings return different pairings
\* for identical inputs: for two competitors who have met, the current one
\* returns one game and the one of src/App.jsx two byes; for three competitors
\* level on score with no history, the current one gives the first the second
\* and the one of src/App.jsx gives the first the third.
C25_RevisionsDiffer ==
    called =>
        /\ (Len(argPlayers) = 2 /\ activeIds = allIds
              /\ metBefore(argPlayers[1].id, argPlayers[2].id)) =>
              /\ Len(ret) = 1 /\ ~isBye(ret[1])
              /\ Len(retV1) = 2 /\ isBye(retV1[1]) /\ isBye(retV1[2])
              /\ ret # retV1
        /\ (Len(argPlayers) = 3 /\ activeIds = allIds /\ argRounds = <<>>
              /\ \A id \in allIds : scoreOf(id) = argPlayers[1].score) =>
              /\ placeOf(ret[1].black) = 2
              /\ placeOf(retV1[1].black) = 3
              /\ ret[1].white = retV1[1].white
              /\ ret # retV1

\* C25 witness: three competitors level on score, no history, and the two
\* revisions returned different lists
C25_Witness ==
    /\ pc = "done"
    /\ Len(argPlayers) = 3
    /\ activeIds = allIds
    /\ argRounds = <<>>
    /\ \A id \in allIds : scoreOf(id) = argPlayers[1].score
    /\ ret # retV1

\* C27: whenever some unused later candidate has not met the competitor
\* being processed, its opponent is the lowest-position one of them: the
\* comparison of score differences never replaces the first one found.
C27_FirstUnmetCandidateChosen ==
    called =>
        \A k \in 1..Len(ret) :
            unmetAt(ret, k) # {} => ret[k].black = lowestPlaced(unmetAt(ret, k))

\* C27 witness: four active competitors on three different scores; the top
\* one had met the second, and the third and the fourth had both not met it:
\* the third was taken and the fourth, further away in score, did not replace it
C27_Witness ==
    /\ pc = "done"
    /\ Cardinality(activeIds) = 4
    /\ placeOf(ret[1].white) = 1
    /\ placeOf(ret[1].black) = 3
    /\ \E id \in activeIds :
          /\ placeOf(id) = 4
          /\ ~metBefore(ret[1].white, id)
          /\ scoreOf(id) < scoreOf(ret[1].black)
    /\ scoreOf(ret[1].black) < scoreOf(ret[1].white)

\* C28: a returned bye pairing is the last element of the returned list, and
\* its white is the only active competitor in no other returned pairing.
C28_ByeIsLastAndLeftOver ==
    called =>
        \A k \in 1..Len(ret) :
            isBye(ret[k]) =>
                /\ k = Len(ret)
                /\ \A id \in activeIds :
                      (id = ret[k].white) <=>
                          \A x \in 1..Len(ret) :
                              x # k => ret[x].white # id /\ ret[x].black # id

\* C28 witness: three active competitors, the first had met the second and
\* took the third; the bye went to the second, not to the last of the list
C28_Witness ==
    /\ pc = "done"
    /\ Cardinality(activeIds) = 3
    /\ Len(ret) = 2
    /\ isBye(ret[2])
    /\ placeOf(ret[2].white) = 2
    /\ placeOf(ret[1].black) = 3

\* the rank of an active competitor when the scores of all of them differ
rankOf(id) == 1 + Cardinality({o \in activeIds : scoreOf(o) > scoreOf(id)})

scoresAllDiffer == \A a, b \in activeIds : a # b => scoreOf(a) # scoreOf(b)

noAdjacentRanksMet ==
    \A a, b \in activeIds : rankOf(b) = rankOf(a) + 1 => ~metBefore(a, b)

\* C23: when the scores of all active competitors differ and no two
\* competitors of adjacent ranks have met, the returned pairings are (rank 1,
\* rank 2), (rank 3, rank 4), ... in that order, the higher-ranked as white,
\* with a bye for the last-ranked when the count is odd; six competitors with
\* scores 3, 2.5, 2, 1.5, 1, 0 give the three adjacent pairings.
C23_AdjacentRanksPaired ==
    /\ (called /\ Cardinality(activeIds) >= 2 /\ scoresAllDiffer /\ noAdjacentRanksMet) =>
          LET n == Cardinality(activeIds)
          IN  /\ Len(ret) = (n + 1) \div 2
              /\ \A k \in 1..Len(ret) :
                    /\ rankOf(ret[k].white) = 2 * k - 1
                    /\ IF 2 * k <= n THEN /\ ~isBye(ret[k])
                                          /\ rankOf(ret[k].black) = 2 * k
                                     ELSE isBye(ret[k])
    /\ (called /\ argPlayers = inputPlayers(6, <<6, 5, 4, 3, 2, 0>>, {})
          /\ noAdjacentRanksMet) =>
          [k \in 1..Len(ret) |-> <<ret[k].white, ret[k].black>>]
              = << <<1, 2>>, <<3, 4>>, <<5, 6>> >>

\* C23 witness: five competitors given in rising order of score, the first
\* and the third in rank had met; three pairings came back, the last a bye
C23_Witness ==
    /\ pc = "done"
    /\ Cardinality(activeIds) = 5
    /\ scoresAllDiffer
    /\ noAdjacentRanksMet
    /\ argPlayers[1].score < argPlayers[2].score
    /\ \E a, b \in activeIds : rankOf(a) = 1 /\ rankOf(b) = 3 /\ metBefore(a, b)
    /\ Len(ret) = 3
    /\ isBye(ret[3])

\* a delete-round request has just been answered: in one step on the
\* in-memory server, with the response of the handler on server.js
deleteRoundAnswered ==
    IF serverIsInMemory THEN Len(dbRounds') < Len(dbRounds)
    ELSE putReq.pc = "respond" /\ putReq.op = "round" /\ putReq'.pc = "idle"

\* the players table but for the scores
playersBesidesScore(players) ==
    [k \in 1..Len(players) |-> [players[k] EXCEPT !.score = 0]]

\* C26: deleting a round removes that round and every pairing of it, leaves
\* every other round and pairing as it was, and when the request is answered
\* every player's stored score is the sum the remaining pairings give; the
\* players are otherwise untouched.  On both servers.
C26_DeleteRoundRemovesAndRecomputes ==
    [][/\ Len(dbPairings') < Len(dbPairings) =>
             \E p \in Range(dbPairings) :
                dbPairings' = SelectSeq(dbPairings, LAMBDA q : q.roundId # p.roundId)
       /\ Len(dbRounds') < Len(dbRounds) =>
             \E r \in Range(dbRounds) :
                /\ dbRounds' = SelectSeq(dbRounds, LAMBDA q : q.id # r.id)
                /\ \A q \in Range(dbPairings') : q.roundId # r.id
                /\ \A q \in Range(dbPairings) : q.roundId # r.id => q \in Range(dbPairings')
       /\ playersBesidesScore(dbPlayers') = playersBesidesScore(dbPlayers)
       /\ deleteRoundAnswered => scoresMatchPairings'
      ]_vars

\* C26 witness (in-memory server): two rounds were started and the first was
\* deleted; the second is left with Black's win and the scores it gives
C26_Witness ==
    /\ serverIsInMemory
    /\ nextRoundId = 3
    /\ Len(dbRounds) = 1
    /\ dbRounds[1].id = 2
    /\ \E p \in Range(dbPairings) : p.result = "0-1"
    /\ \E k \in 1..Len(dbPlayers) : dbPlayers[k].score = 2
    /\ scoresMatchPairings

\* the same against server.js
C26_PgWitness ==
    /\ ~serverIsInMemory
    /\ putReq.pc = "idle"
    /\ nextRoundId = 3
    /\ Len(dbRounds) = 1
    /\ dbRounds[1].id = 2
    /\ \E p \in Range(dbPairings) : p.result = "0-1"
    /\ \E k \in 1..Len(dbPlayers) : dbPlayers[k].score = 2
    /\ scoresMatchPairings

\* the stored rows of one tournament: its players, its rounds, the pairings of
\* its rounds
rowsOf(id) ==
    [players |-> SelectSeq(dbPlayers, LAMBDA p : p.tournamentId = id),
     rounds |-> SelectSeq(dbRounds, LAMBDA r : r.tournamentId = id),
     pairings |-> SelectSeq(dbPairings, LAMBDA p : id \in tournamentOfRound(p.roundId))]

\* every stored score of the tournament is what its stored pairings give
scoresMatchIn(id) ==
    \A p \in Range(rowsOf(id).players) : p.score = pointsIn(rowsOf(id).pairings, p.id)

\* C29: an update-pairing, delete-player or delete-round request addressed to
\* one tournament, whatever pairing, player or round id it carries, changes no
\* stored player, round, pairing or score of another tournament, and does not
\* leave a player of another tournament with a stored score other than the one
\* that tournament's pairings give.
C29_OtherTournamentUntouched ==
    [][\A id \in Tournaments :
          addressedTo(id) =>
              \A other \in Tournaments \ {id} :
                  /\ rowsOf(other)' = rowsOf(other)
                  /\ scoresMatchIn(other) => scoresMatchIn(other)']_vars

\* C30: in every reachable state of the in-memory server every stored pairing
\* belongs to a stored round, its white is a stored player of that round's
\* tournament, and its black is null or a stored player of that tournament.
C30_PairingsReferToStoredRows ==
    \A p \in Range(dbPairings) :
        /\ \E r \in Range(dbRounds) : r.id = p.roundId
        /\ \A r \in Range(dbRounds) :
              r.id = p.roundId =>
                  /\ \E q \in Range(dbPlayers) :
                        q.id = p.white /\ q.tournamentId = r.tournamentId
                  /\ \/ p.black = NoPlayer
                     \/ \E q \in Range(dbPlayers) :
                           q.id = p.black /\ q.tournamentId = r.tournamentId
====
